---- MODULE Spec2Model ----
(***************************************************************************)
(* Model of the Crewai-MCP demo: the Streamlit front end (app.py), which   *)
(* runs main.py as a subprocess and scrapes its transcript, and the        *)
(* provider selection of main.py (get_available_llm).                      *)
(*                                                                         *)
(* Text is a sequence of tokens.  A token is one character ("SP", "BOXV",  *)
(* "ESC", ...) or a fixed run of characters that the code treats as a unit *)
(* ("FR" is the 13 characters FINAL RESULT:, "W31" is a word of 31 plain   *)
(* letters, "E50" is fifty '=' signs).  TokLen gives each token's length   *)
(* in characters, so that len() is computed, not assumed.                  *)
(***************************************************************************)
EXTENDS Integers, Sequences, FiniteSets, TLC

VARIABLES
    pc,                \* app.py: position of the request in main()/run_research()
    output,            \* app.py: stdout of the main.py subprocess (the transcript)
    nwritten,          \* number of lines the subprocess has written so far
    result,            \* app.py: value returned by extract_final_result
    strategy,          \* which return statement of extract_final_result produced result
    session,           \* app.py: st.session_state (a function on the keys set so far)
    result_text,       \* app.py: the text handed to st.markdown / st.download_button
    topic,             \* app.py: content of the text field "Research Topic:"
    error,             \* app.py: second component of what run_research returns
    killed,            \* app.py: process.kill() was called on the current subprocess
    popens,            \* app.py: number of subprocess.Popen calls so far
    clicks,            \* app.py: number of clicks on the start button so far
    panel_topic,       \* app.py: topic shown in the subheader of the results panel
    file_name,         \* app.py: file_name of the text download button
    shown_error,       \* app.py: what st.error shows in the current script run
    env,               \* main.py: os.environ restricted to the credential variables
    builds,            \* main.py: whether LLM(...) succeeds for each list entry
    fallback_builds,   \* main.py: whether the LLM(...) call of the fallback succeeds
    cand,              \* main.py: index of the loop `for config in llm_configs`
    llm_pc,            \* main.py: position inside get_available_llm
    llm,               \* main.py: the value get_available_llm returns
    attempts,          \* main.py: the LLM(...) calls made so far, in order
    log,               \* main.py: what get_available_llm printed per candidate
    stdin,             \* the pipe to main.py: lines written by app.py and not yet read
    input_calls,       \* main.py: number of calls of input() in the current process
    run_pc,            \* main.py: position inside main()/run_fallback_mode()
    probes,            \* main.py: static probes made so far, <<probe, outcome>> in order
    server_configs,    \* main.py: what get_working_servers has collected
    live,              \* main.py: live tests made so far, <<server, outcome>> in order
    working_server_params, \* main.py: what test_servers_individually has collected
    attempt,           \* main.py: the loop variable of `for attempt in range(max_retries + 1)`
    kickoffs,          \* main.py: outcomes of the crew.kickoff calls so far, <<mode, outcome>>
    mode,              \* main.py: "tools" inside the adapter, "fallback" in run_fallback_mode
    run_topic,         \* main.py: the topic the runner works on
    exit_code,         \* main.py: exit status of the process
    images_dir,        \* app.py: the directory servers/images (get_latest_images)
    image_files,       \* app.py: the list get_latest_images builds
    img_pc             \* app.py: position inside get_latest_images

uivars == <<topic, error, killed, popens, clicks, panel_topic, file_name, shown_error>>
appvars == <<pc, output, nwritten, result, strategy, session, result_text, uivars>>
llmvars == <<env, builds, fallback_builds, cand, llm_pc, llm, attempts, log>>
probevars == <<run_pc, probes, server_configs, live, working_server_params, attempt,
               kickoffs, mode, run_topic, exit_code>>
runvars == <<stdin, input_calls, probevars>>
imgvars == <<images_dir, image_files, img_pc>>
vars == <<appvars, llmvars, runvars, imgvars>>

(***************************************************************************)
(* Bounds of the model.                                                    *)
(***************************************************************************)
MaxLines == 3
MaxSessionLines == 2
MaxRequests == 2
MaxMtime == 2
MaxDecoratedLines == 3

(***************************************************************************)
(* Characters and strings.                                                 *)
(***************************************************************************)
\* Length in characters of each token.
TokLen(t) ==
    CASE t = "W5" -> 5
      [] t = "W11" -> 11
      [] t = "W31" -> 31
      [] t = "E50" -> 50
      [] t = "DBLH31" -> 31
      [] t = "FR" -> 13
      [] t = "FA" -> 13
      [] t = "HFA" -> 15
      [] t = "Status:" -> 7
      [] t = "status:" -> 7
      [] t = "used" -> 4
      [] t = "USED" -> 4
      [] t = "HFAC" -> 16
      [] t = "fr" -> 13
      [] t = "fa" -> 13
      [] t = "hfa" -> 15
      [] t = "hfac" -> 16
      [] t = "Assigned to:" -> 12
      [] t = "assigned to:" -> 12
      [] t = "task completion" -> 15
      [] t = "crew completion" -> 15
      [] t = "crew execution completed" -> 24
      [] t = "FALLBACK" -> 86
      [] OTHER -> 1

\* len(s)
RECURSIVE StrLen(_)
StrLen(s) == IF s = <<>> THEN 0 ELSE TokLen(Head(s)) + StrLen(Tail(s))

\* str.lower(): the tokens that hold upper-case letters.
LowerTok(t) ==
    CASE t = "Status:" -> "status:"
      [] t = "USED" -> "used"
      [] t = "FR" -> "fr"
      [] t = "FA" -> "fa"
      [] t = "HFA" -> "hfa"
      [] t = "HFAC" -> "hfac"
      [] t = "Assigned to:" -> "assigned to:"
      [] OTHER -> t

Lower(s) == [i \in 1..Len(s) |-> LowerTok(s[i])]

\* `pat in s` for strings.
Contains(s, pat) ==
    \E i \in 1..(Len(s) - Len(pat) + 1) : SubSeq(s, i, i + Len(pat) - 1) = pat

\* Characters str.strip() removes.
Whitespace == {"SP", "NL"}

\* str.strip()
RECURSIVE LStrip(_)
LStrip(s) ==
    IF s # <<>> /\ Head(s) \in Whitespace THEN LStrip(Tail(s)) ELSE s

RECURSIVE RStrip(_)
RStrip(s) ==
    IF s # <<>> /\ s[Len(s)] \in Whitespace
    THEN RStrip(SubSeq(s, 1, Len(s) - 1))
    ELSE s

Strip(s) == RStrip(LStrip(s))

\* re.sub('[chars]', '', s)
RemoveChars(s, chars) == SelectSeq(s, LAMBDA t : t \notin chars)

\* s.split(marker, 1)[1] when the marker is in s: everything after its first
\* occurrence.  toks are the tokens whose text ends with the marker.
RECURSIVE AfterFirst(_, _)
AfterFirst(s, toks) ==
    IF s = <<>> THEN <<>>
    ELSE IF Head(s) \in toks THEN Tail(s)
    ELSE AfterFirst(Tail(s), toks)

\* any(p in s for p in pats)
ContainsAny(s, pats) == \E p \in pats : Contains(s, p)

\* s.split('\n')
RECURSIVE SplitLines(_, _, _)
SplitLines(s, cur, acc) ==
    IF s = <<>> THEN Append(acc, cur)
    ELSE IF Head(s) = "NL" THEN SplitLines(Tail(s), <<>>, Append(acc, cur))
    ELSE SplitLines(Tail(s), Append(cur, Head(s)), acc)

Split(s) == SplitLines(s, <<>>, <<>>)

\* '\n'.join(ls)
RECURSIVE Join(_)
Join(ls) ==
    IF ls = <<>> THEN <<>>
    ELSE IF Len(ls) = 1 THEN ls[1]
    ELSE ls[1] \o <<"NL">> \o Join(Tail(ls))

(***************************************************************************)
(* extract_final_result (app.py).                                          *)
(***************************************************************************)
\* "FINAL RESULT:" (13 characters).
MarkerTokens == {"FR"}

\* "==================================================\nFINAL RESULT:"
SeparatorThenMarker == <<"E50", "NL", "FR">>

\* The character class of line 88.  "DBLH" (the double horizontal bar) stands
\* for the glyphs of the class that no other list of the function names;
\* "DBLH31" is a run of 31 of them.
BoxChars == {"BOXTL", "BOXV", "BOXBL", "DBLH", "DBLH31", "BOXH", "BOXL"}

\* The character class of line 113: the box characters and four emoji.
BoxAndEmojiChars == BoxChars \cup {"ROCKET", "CLIP", "WRENCH", "CHECK"}

\* Line 71: does the loop stop at this line?
IsMarkerLine(line, out) ==
    Contains(line, <<"FR">>) \/ Contains(out, SeparatorThenMarker)

\* Lines 69-73: index of the first line the loop stops at (0: none; the code's -1).
RECURSIVE FindMarker(_, _, _)
FindMarker(lines, out, i) ==
    IF i > Len(lines) THEN 0
    ELSE IF IsMarkerLine(lines[i], out) THEN i
    ELSE FindMarker(lines, out, i + 1)

\* Lines 82-84: the marker line's contribution to result_lines.
MarkerLineContent(line) ==
    LET content == Strip(AfterFirst(line, MarkerTokens))
    IN  IF content # <<>> THEN <<content>> ELSE <<>>

\* Lines 88-92: another line's contribution to result_lines.
MarkerCleanedLine(line) ==
    LET cleaned_line == Strip(RemoveChars(line, BoxChars))
    IN  IF cleaned_line # <<>> THEN <<cleaned_line>> ELSE <<>>

\* Lines 77-92: the loop over lines[final_result_start:].
RECURSIVE MarkerScan(_, _)
MarkerScan(ls, result_lines) ==
    IF ls = <<>> THEN result_lines
    ELSE IF Contains(Head(ls), <<"FR">>)
         THEN MarkerScan(Tail(ls), result_lines \o MarkerLineContent(Head(ls)))
         ELSE MarkerScan(Tail(ls), result_lines \o MarkerCleanedLine(Head(ls)))

\* Lines 68-92: result_lines of the first attempt (<<>> when no marker was found).
MarkerResultLines(out) ==
    LET lines == Split(out)
        final_result_start == FindMarker(lines, out, 1)
    IN  IF final_result_start # 0
        THEN MarkerScan(SubSeq(lines, final_result_start, Len(lines)), <<>>)
        ELSE <<>>

\* Line 102: the line starts (or restarts) the capture.
IsLabelLine(line) ==
    ContainsAny(line, {<<"HFA">>, <<"HFAC">>})        \* "## Final Answer" in line
    \/ ContainsAny(line, {<<"FA">>, <<"HFAC">>})      \* "Final Answer:" in line

\* Lines 105-108: the label line's contribution to final_answer_lines.
LabelLineContent(line) ==
    LET content == Strip(AfterFirst(line, {"FA", "HFAC"}))
    IN  IF ContainsAny(line, {<<"FA">>, <<"HFAC">>}) /\ content # <<>>
        THEN <<content>> ELSE <<>>

\* Lines 117-120: the patterns that end the answer, looked up in line.lower().
EndPatterns ==
    { <<"crew execution completed">>, <<"task completion">>, <<"crew completion">>,
      <<"BOXL", "BOXH", "BOXH">>, <<"assigned to:">>, <<"status:">>, <<"used">> }

\* Mutant of IsEndOfAnswer: the patterns are looked up in line, not line.lower().
IsEndOfAnswerCaseSensitive(line) == ContainsAny(line, EndPatterns)

IsEndOfAnswer(line) == ContainsAny(Lower(line), EndPatterns)

\* Lines 113-114 and 124-125: a captured line's contribution.
LabeledCleanedLine(line) ==
    LET cleaned == Strip(RemoveChars(line, BoxAndEmojiChars))
    IN  IF cleaned # <<>> /\ StrLen(cleaned) > 10 THEN <<cleaned>> ELSE <<>>

\* Lines 101-125: the loop of the second attempt.
RECURSIVE LabeledScan(_, _, _)
LabeledScan(ls, capturing, final_answer_lines) ==
    IF ls = <<>> THEN final_answer_lines
    ELSE IF IsLabelLine(Head(ls))
         THEN LabeledScan(Tail(ls), TRUE,
                          final_answer_lines \o LabelLineContent(Head(ls)))
    ELSE IF capturing
         THEN IF IsEndOfAnswer(Head(ls))
              THEN final_answer_lines
              ELSE LabeledScan(Tail(ls), TRUE,
                               final_answer_lines \o LabeledCleanedLine(Head(ls)))
    ELSE LabeledScan(Tail(ls), FALSE, final_answer_lines)

LabeledResultLines(out) == LabeledScan(Split(out), FALSE, <<>>)

\* Line 136: the line is a CrewAI UI element.
UIElements ==
    { <<"BOXTL">>, <<"BOXV">>, <<"BOXBL">>, <<"ROCKET">>, <<"CLIP">>,
      <<"BOXL", "BOXH", "BOXH">>, <<"Assigned to:">>, <<"Status:">> }

IsUIElement(line) == ContainsAny(line, UIElements)

\* Mutant of IsSubstantial: the threshold of the second attempt (10) is used.
IsSubstantialOver10(cleaned) == cleaned # <<>> /\ StrLen(cleaned) > 10

\* Line 143: the stripped line is substantial.
IsSubstantial(cleaned) == cleaned # <<>> /\ StrLen(cleaned) > 30

\* Lines 137-139 and 145-147: close the current block, if any.
CloseBlock(current_block, substantial_blocks) ==
    IF current_block # <<>>
    THEN Append(substantial_blocks, Join(current_block))
    ELSE substantial_blocks

\* Lines 134-151: the loop of the third attempt and the last block.
RECURSIVE BlockScan(_, _, _)
BlockScan(ls, current_block, substantial_blocks) ==
    IF ls = <<>> THEN CloseBlock(current_block, substantial_blocks)
    ELSE IF IsUIElement(Head(ls))
         THEN BlockScan(Tail(ls), <<>>, CloseBlock(current_block, substantial_blocks))
    ELSE IF IsSubstantial(Strip(Head(ls)))
         THEN BlockScan(Tail(ls), Append(current_block, Strip(Head(ls))),
                        substantial_blocks)
    ELSE BlockScan(Tail(ls), <<>>, CloseBlock(current_block, substantial_blocks))

SubstantialBlocks(out) == BlockScan(Split(out), <<>>, <<>>)

\* Line 157: the canned sentence (86 characters).
FallbackSentence == <<"FALLBACK">>

\* Python's None, where a string is expected.
None == <<"None">>

(***************************************************************************)
(* The ANSI pass of main() (app.py, lines 230-231).                        *)
(***************************************************************************)
\* The class [\d;] of the pattern.
DigitOrSemicolon == {"0", "1", ";"}

\* Length of the longest prefix of s in [\d;]*.
RECURSIVE DigitRun(_)
DigitRun(s) ==
    IF s # <<>> /\ Head(s) \in DigitOrSemicolon THEN 1 + DigitRun(Tail(s)) ELSE 0

\* Length of the match of \x1b\[[\d;]*m at the start of s (0: no match).  The
\* class does not hold 'm', so the greedy run never has to give characters back.
AnsiMatchLen(s) ==
    IF Len(s) >= 2 /\ s[1] = "ESC" /\ s[2] = "["
    THEN LET k == DigitRun(SubSeq(s, 3, Len(s)))
         IN  IF Len(s) >= 3 + k /\ s[3 + k] = "m" THEN 3 + k ELSE 0
    ELSE 0

\* pattern.sub('', s): one pass from left to right; the scan goes on after each
\* match and never looks again at what it has already put out.
RECURSIVE AnsiSub(_)
AnsiSub(s) ==
    IF s = <<>> THEN <<>>
    ELSE LET n == AnsiMatchLen(s)
         IN  IF n > 0
             THEN AnsiSub(SubSeq(s, n + 1, Len(s)))
             ELSE <<Head(s)>> \o AnsiSub(Tail(s))

(***************************************************************************)
(* The front end (app.py): one request.                                    *)
(***************************************************************************)
\* Lines the subprocess may write to its standard output.
TranscriptLines ==
    { <<>>,
      <<"SP">>,
      <<"W5">>,
      <<"W11">>,
      <<"W31">>,
      <<"E50">>,
      <<"FR">>,
      <<"FR", "SP", "W11">>,
      <<"BOXV", "SP", "W31", "SP", "BOXV">>,
      <<"DBLH31">>,
      <<"HFA">>,
      <<"FA", "SP", "W5">>,
      <<"Status:", "SP", "W31">>,
      <<"W31", "SP", "USED">>,
      <<"FA", "SP", "used", "SP", "W11">>,
      <<"ROCKET", "SP", "W11">>,
      <<"ESC", "[", "ESC", "[", "0", "m", "0", "m", "W31">> }

\* What the user may type into the text field.
Topics == { <<"W5", "SP", "W5">>, <<"SP", "W11", "SP">> }

\* Lines the subprocess writes in the runs of a session of several requests.
SessionLines == { <<"FR", "SP", "W11">>, <<"E50">>, <<"FA", "SP", "W5">> }

\* Lines of a transcript in which CrewAI's panels frame the text: the marker
\* and the label stand inside a frame, before text the frame closes.
DecoratedLines ==
    { <<"FR", "SP", "W11">>,
      <<"BOXV", "SP", "FR", "SP", "W11", "SP", "BOXV">>,
      <<"FR", "SP", "DBLH", "DBLH">>,
      <<"BOXV", "SP", "FA", "SP", "W11", "SP", "BOXV">>,
      <<"HFA">>,
      <<"BOXV", "SP", "W31", "SP", "BOXV">>,
      <<"BOXTL", "BOXH", "BOXH">>,
      <<"W31">> }

\* What the subprocess may have written to its standard error.
StderrTexts == { <<"Traceback">>, <<"Research timed out after 5 minutes">> }

\* str(e) of an exception of Popen or of communicate.
ExceptionTexts == { <<"Errno 2">>, <<"Research timed out after 5 minutes">> }

\* Return codes other than 0.
NonzeroCodes == {"1", "2"}

\* Line 56: f"Error (return code {process.returncode}):\n{stderr}"
ErrorOfExit(code, stderr) == <<"Error (return code ", code, "):", "NL">> \o stderr

\* Line 60.
TimeoutMessage == <<"Research timed out after 5 minutes">>

\* Line 62: f"Unexpected error: {str(e)}"
UnexpectedError(e) == <<"Unexpected error: ">> \o e

\* Line 213: f"Research failed: {error}"
ResearchFailed(err) == <<"Research failed: ">> \o err

\* str.replace(' ', '_')
ReplaceSpaces(s) == [i \in 1..Len(s) |-> IF s[i] = "SP" THEN "_" ELSE s[i]]

\* Line 241: f"research_{topic.replace(' ', '_')}.txt"
FileNameOf(t) == <<"research_">> \o ReplaceSpaces(t) \o <<".txt">>

\* The subprocess is looked at from outside only: what main.py does inside is
\* not followed, it writes lines and ends.
Opaque == run_pc = "opaque"

\* process.returncode is code when communicate() returns.
ExitsWith(code) == Opaque \/ (run_pc = "exited" /\ exit_code = code)

(***************************************************************************)
(* get_latest_images (app.py).                                             *)
(***************************************************************************)
\* Line 166, without the "*." of each pattern.
image_extensions == <<"jpg", "jpeg", "png", "gif", "bmp">>

\* glob.glob(str(images_dir / ext)): the entries of the directory, in the
\* order of its listing, that the pattern "*." + ext matches.  The match is on
\* the characters of the name as they are, and `*` matches no name that begins
\* with a dot.
Glob(files, ext) == SelectSeq(files, LAMBDA f : f.ext = ext /\ ~f.hidden)

\* Lines 169-170: the loop over the patterns.
RECURSIVE GlobAll(_, _)
GlobAll(files, exts) ==
    IF exts = <<>> THEN <<>>
    ELSE Glob(files, Head(exts)) \o GlobAll(files, Tail(exts))

\* Mutant of InsertByMtime: the sort is ascending (reverse=True forgotten).
RECURSIVE InsertByMtimeAscending(_, _)
InsertByMtimeAscending(f, sorted) ==
    IF sorted = <<>> THEN <<f>>
    ELSE IF Head(sorted).mtime > f.mtime THEN <<f>> \o sorted
    ELSE <<Head(sorted)>> \o InsertByMtimeAscending(f, Tail(sorted))

\* list.sort(key=os.path.getmtime, reverse=True), one insertion: f goes behind
\* the entries that are as new or newer (the sort is stable).
RECURSIVE InsertByMtime(_, _)
InsertByMtime(f, sorted) ==
    IF sorted = <<>> THEN <<f>>
    ELSE IF Head(sorted).mtime < f.mtime THEN <<f>> \o sorted
    ELSE <<Head(sorted)>> \o InsertByMtime(f, Tail(sorted))

\* Line 176.
RECURSIVE SortByMtime(_, _)
SortByMtime(fs, sorted) ==
    IF fs = <<>> THEN sorted
    ELSE SortByMtime(Tail(fs), InsertByMtime(Head(fs), sorted))

\* Lines 159-179.
GetLatestImages(dir) ==
    IF ~dir.exists THEN <<>>
    ELSE LET found == GlobAll(dir.files, image_extensions)
         IN  IF found = <<>> THEN <<>>
             ELSE SubSeq(SortByMtime(found, <<>>), 1, 1)

\* The directory does not exist.
NoDirectory == [exists |-> FALSE, files |-> <<>>]

(***************************************************************************)
(* The front end (app.py): the requests.                                   *)
(***************************************************************************)
\* The page is loaded, a topic has been typed and nothing was asked for yet.
InitApp ==
    /\ pc = "idle"
    /\ output = <<>>
    /\ nwritten = 0
    /\ result = None
    /\ strategy = "none"
    /\ session = <<>>
    /\ result_text = None
    /\ topic = <<"W5", "SP", "W5">>
    /\ error = None
    /\ killed = FALSE
    /\ popens = 0
    /\ clicks = 0
    /\ panel_topic = None
    /\ file_name = None
    /\ shown_error = None

\* Lines 192-196: the user types a topic; the script runs again without the
\* button, so that the panel is drawn from the session and no error is shown.
TypeTopic ==
    /\ pc \in {"idle", "rendered"}
    /\ clicks < MaxRequests
    /\ \E t \in Topics : topic' = t
    /\ pc' = "idle"
    /\ shown_error' = None
    /\ UNCHANGED <<output, nwritten, result, strategy, session, result_text, error,
                   killed, popens, clicks, panel_topic, file_name,
                   llmvars, runvars, imgvars>>

\* Lines 199-202 and 37-50: the button starts main.py and the topic is written
\* to its standard input.
StartResearch ==
    /\ pc = "idle"
    /\ Strip(topic) # <<>>
    /\ clicks < MaxRequests
    /\ clicks' = clicks + 1
    /\ popens' = popens + 1
    /\ stdin' = <<Strip(topic)>>
    /\ input_calls' = 0
    /\ pc' = "running"
    /\ output' = <<>>
    /\ nwritten' = 0
    /\ result' = None
    /\ strategy' = "none"
    /\ error' = None
    /\ killed' = FALSE
    /\ shown_error' = None
    /\ UNCHANGED <<session, result_text, topic, panel_topic, file_name,
                   llmvars, probevars, imgvars>>

\* The subprocess writes one more line; communicate() collects it (line 50).
Writes(pool, limit) ==
    /\ pc = "running"
    /\ nwritten < limit
    /\ \E l \in pool :
          output' = IF nwritten = 0 THEN l ELSE output \o <<"NL">> \o l
    /\ nwritten' = nwritten + 1
    /\ UNCHANGED <<pc, result, strategy, session, result_text, uivars, llmvars, runvars, imgvars>>

RunnerWrites == Writes(TranscriptLines, MaxLines)

SessionWrites == Writes(SessionLines, MaxSessionLines)

DecoratedWrites == Writes(DecoratedLines, MaxDecoratedLines)

\* The image server leaves a picture in servers/images while main.py runs.
RunnerSavesImage ==
    /\ pc = "running"
    /\ images_dir = NoDirectory
    /\ images_dir' = [exists |-> TRUE,
                      files |-> <<[name |-> "a", ext |-> "png", hidden |-> FALSE, mtime |-> 1]>>]
    /\ UNCHANGED <<appvars, llmvars, runvars, image_files, img_pc>>

\* Lines 50-54: the subprocess ends with return code 0.
RunnerExits ==
    /\ pc = "running"
    /\ ExitsWith("0")
    /\ pc' = "marker"
    /\ UNCHANGED <<output, nwritten, result, strategy, session, result_text, uivars, llmvars, runvars, imgvars>>

\* Mutant of FailureResult: what was written to stdout is extracted all the same.
FailureResultSalvaged(stdout) ==
    IF MarkerResultLines(stdout) # <<>> THEN Strip(Join(MarkerResultLines(stdout))) ELSE None

\* Lines 56, 60 and 62: the first component of the pair a failed run returns.
FailureResult(stdout) == None

\* Lines 50-56: the subprocess ends with another return code.
RunnerFails ==
    /\ pc = "running"
    /\ \E code \in NonzeroCodes : \E stderr \in StderrTexts :
          /\ ExitsWith(code)
          /\ error' = ErrorOfExit(code, stderr)
    /\ result' = FailureResult(output)
    /\ pc' = "returned"
    /\ UNCHANGED <<output, nwritten, strategy, session, result_text, topic, killed,
                   popens, clicks, panel_topic, file_name, shown_error,
                   llmvars, runvars, imgvars>>

\* Mutant of TimeoutError: the timeout is reported as an unexpected error.
TimeoutErrorAsUnexpected == UnexpectedError(TimeoutMessage)

\* Line 60: the second component of what a timed out run returns.
TimeoutError == TimeoutMessage

\* Lines 50 and 58-60: 300 seconds have passed and the subprocess still runs:
\* communicate() raises TimeoutExpired.
RunnerTimesOut ==
    /\ pc = "running"
    /\ Opaque
    /\ killed' = TRUE
    /\ result' = FailureResult(output)
    /\ error' = TimeoutError
    /\ pc' = "returned"
    /\ UNCHANGED <<output, nwritten, strategy, session, result_text, topic,
                   popens, clicks, panel_topic, file_name, shown_error,
                   llmvars, runvars, imgvars>>

\* Lines 37-50 and 61-62: Popen or communicate() raises another exception.
CommunicateRaises ==
    /\ pc = "running"
    /\ Opaque
    /\ \E e \in ExceptionTexts : error' = UnexpectedError(e)
    /\ result' = FailureResult(output)
    /\ pc' = "returned"
    /\ UNCHANGED <<output, nwritten, strategy, session, result_text, topic, killed,
                   popens, clicks, panel_topic, file_name, shown_error,
                   llmvars, runvars, imgvars>>

\* Mutant of MarkerReturns: the join is returned without the test of line 94.
MarkerReturnsUnguarded(result_lines) == TRUE

\* Mutant of MarkerReturns: the test of line 94 is inverted.
MarkerReturnsInverted(result_lines) == result_lines = <<>>

\* Lines 94-95: the first attempt returns when it has lines.
MarkerReturns(result_lines) == result_lines # <<>>

\* Lines 68-95: the first attempt.
MarkerStrategy ==
    /\ pc = "marker"
    /\ LET result_lines == MarkerResultLines(output)
       IN  \/ /\ MarkerReturns(result_lines)
              /\ result' = Strip(Join(result_lines))
              /\ strategy' = "marker"
              /\ pc' = "returned"
           \/ /\ ~MarkerReturns(result_lines)
              /\ pc' = "labeled"
              /\ UNCHANGED <<result, strategy>>
    /\ UNCHANGED <<output, nwritten, session, result_text, uivars, llmvars, runvars, imgvars>>

\* Lines 97-128: the second attempt.
LabeledStrategy ==
    /\ pc = "labeled"
    /\ LET final_answer_lines == LabeledResultLines(output)
       IN  \/ /\ final_answer_lines # <<>>
              /\ result' = Strip(Join(final_answer_lines))
              /\ strategy' = "labeled"
              /\ pc' = "returned"
           \/ /\ final_answer_lines = <<>>
              /\ pc' = "block"
              /\ UNCHANGED <<result, strategy>>
    /\ UNCHANGED <<output, nwritten, session, result_text, uivars, llmvars, runvars, imgvars>>

\* Lines 130-157: the third attempt and the canned sentence.
BlockStrategy ==
    /\ pc = "block"
    /\ LET substantial_blocks == SubstantialBlocks(output)
       IN  \/ /\ substantial_blocks # <<>>
              /\ result' = Strip(substantial_blocks[Len(substantial_blocks)])
              /\ strategy' = "block"
           \/ /\ substantial_blocks = <<>>
              /\ result' = FallbackSentence
              /\ strategy' = "fallback"
    /\ pc' = "returned"
    /\ UNCHANGED <<output, nwritten, session, result_text, uivars, llmvars, runvars, imgvars>>

\* `if result:` (line 205): None and the empty string are false.
IsTruthy(r) == r # None /\ r # <<>>

\* Mutant of StoredSession: the topic of the request is not stored with its result.
StoredSessionWithoutTopic(r, t, images) ==
    ("research_result" :> r) @@ ("latest_images" :> images) @@ session

\* Lines 209-211: the three values a successful request leaves in the session.
StoredSession(r, t, images) ==
    ("research_result" :> r) @@ ("research_topic" :> t)
        @@ ("latest_images" :> images) @@ session

\* Mutant of KeptSession: a failed request clears the session.
KeptSessionCleared == <<>>

\* Lines 212-213: a failed request writes nothing to the session.
KeptSession == session

\* Lines 205-213: the result, when truthy, goes to the session state with the
\* topic and the latest image; otherwise the error is shown.
StoreResult ==
    /\ pc = "returned"
    /\ session' = IF IsTruthy(result)
                  THEN StoredSession(result, Strip(topic), GetLatestImages(images_dir))
                  ELSE KeptSession
    /\ shown_error' = IF IsTruthy(result) THEN None ELSE ResearchFailed(error)
    /\ pc' = "stored"
    /\ UNCHANGED <<output, nwritten, result, strategy, result_text, topic, error, killed,
                   popens, clicks, panel_topic, file_name, llmvars, runvars, imgvars>>

\* Lines 216-243: the results panel, drawn when the session holds a result.
Render ==
    /\ pc = "stored"
    /\ result_text' = IF "research_result" \in DOMAIN session
                      THEN AnsiSub(session["research_result"])
                      ELSE result_text
    /\ panel_topic' = IF "research_result" \in DOMAIN session
                      THEN IF "research_topic" \in DOMAIN session
                           THEN session["research_topic"] ELSE <<"Unknown Topic">>
                      ELSE panel_topic
    /\ file_name' = IF "research_result" \in DOMAIN session
                    THEN FileNameOf(IF "research_topic" \in DOMAIN session
                                    THEN session["research_topic"] ELSE <<"topic">>)
                    ELSE file_name
    /\ pc' = "rendered"
    /\ UNCHANGED <<output, nwritten, result, strategy, session, topic, error, killed,
                   popens, clicks, shown_error, llmvars, runvars, imgvars>>

\* One request that succeeds.
Next ==
    \/ StartResearch
    \/ RunnerWrites
    \/ RunnerExits
    \/ MarkerStrategy
    \/ LabeledStrategy
    \/ BlockStrategy
    \/ StoreResult
    \/ Render

\* Several requests, each succeeding or failing.
NextSession ==
    \/ TypeTopic
    \/ StartResearch
    \/ SessionWrites
    \/ RunnerSavesImage
    \/ RunnerExits
    \/ RunnerFails
    \/ RunnerTimesOut
    \/ CommunicateRaises
    \/ MarkerStrategy
    \/ LabeledStrategy
    \/ BlockStrategy
    \/ StoreResult
    \/ Render

\* One successful request whose transcript holds framed text.
NextDecorated ==
    \/ StartResearch
    \/ DecoratedWrites
    \/ RunnerExits
    \/ MarkerStrategy
    \/ LabeledStrategy
    \/ BlockStrategy
    \/ StoreResult
    \/ Render

(***************************************************************************)
(* get_available_llm (main.py).                                            *)
(***************************************************************************)
\* Lines 23-48.
llm_configs ==
    << [name |-> "Groq Llama", model |-> "groq/llama-3.3-70b-versatile",
        api_key_env |-> "GROQ_API_KEY", temperature |-> "0.7"],
       [name |-> "OpenAI GPT-4", model |-> "gpt-4o-mini",
        api_key_env |-> "OPENAI_API_KEY", temperature |-> "0.7"],
       [name |-> "Anthropic Claude", model |-> "claude-3-haiku-20240307",
        api_key_env |-> "ANTHROPIC_API_KEY", temperature |-> "0.7"],
       [name |-> "Ollama Local", model |-> "ollama/llama3.2",
        api_key_env |-> "None", temperature |-> "0.7"] >>

CredentialVars == {"GROQ_API_KEY", "OPENAI_API_KEY", "ANTHROPIC_API_KEY"}

\* What a credential variable can hold: nothing, the empty string, a key.
EnvValues == {"unset", "", "key"}

\* os.getenv(name): None ("unset") when the variable is not set.
Getenv(name) == env[name]

\* Mutant of GetenvOrEmpty: os.getenv(name) without the default.
GetenvNoDefault(name) == env[name]

\* os.getenv(name, ""): line 86.
GetenvOrEmpty(name) == IF env[name] = "unset" THEN "" ELSE env[name]

\* Mutant of Truthy: `if api_key is not None:`, which lets the empty string pass.
TruthyNotNone(api_key) == api_key # "unset"

\* `if api_key:` (line 66): None and the empty string are false.
Truthy(api_key) == api_key \notin {"unset", ""}

\* Lines 57-61: the client of a local model.
LocalClient(config) ==
    [model |-> config.model, temperature |-> config.temperature,
     api_key |-> "None", max_tokens |-> "1000"]

\* Lines 68-72: the client of a provider with a key.
KeyedClient(config, api_key) ==
    [model |-> config.model, temperature |-> config.temperature,
     api_key |-> api_key, max_tokens |-> "None"]

\* Lines 83-87: the client of the fallback.
FallbackClient ==
    [model |-> "groq/llama-3.3-70b-versatile", temperature |-> "0.7",
     api_key |-> GetenvOrEmpty("GROQ_API_KEY"), max_tokens |-> "None"]

NoClient == [model |-> "None", temperature |-> "None",
             api_key |-> "None", max_tokens |-> "None"]

InitLLM ==
    /\ env \in [CredentialVars -> EnvValues]
    /\ builds \in [1..Len(llm_configs) -> BOOLEAN]
    /\ fallback_builds \in BOOLEAN
    /\ cand = 1
    /\ llm_pc = "loop"
    /\ llm = NoClient
    /\ attempts = <<>>
    /\ log = <<>>

\* Mutant of LocalBuilt: an entry without api_key_env is treated as an entry
\* whose key is missing, and the loop goes on.
LocalBuiltSkipped ==
    /\ llm_pc = "loop" /\ cand <= Len(llm_configs)
    /\ llm_configs[cand].api_key_env = "None"
    /\ builds[cand]
    /\ log' = Append(log, <<cand, "no key">>)
    /\ cand' = cand + 1
    /\ UNCHANGED <<env, builds, fallback_builds, llm_pc, llm, attempts, appvars, runvars, imgvars>>

\* Lines 54-63: a local model, and LLM(...) returns.
LocalBuilt ==
    /\ llm_pc = "loop" /\ cand <= Len(llm_configs)
    /\ llm_configs[cand].api_key_env = "None"
    /\ builds[cand]
    /\ attempts' = Append(attempts, LocalClient(llm_configs[cand]))
    /\ log' = Append(log, <<cand, "using">>)
    /\ llm' = LocalClient(llm_configs[cand])
    /\ llm_pc' = "returned"
    /\ UNCHANGED <<env, builds, fallback_builds, cand, appvars, runvars, imgvars>>

\* Lines 54-61 and 77-79: a local model, and LLM(...) throws.
LocalFailed ==
    /\ llm_pc = "loop" /\ cand <= Len(llm_configs)
    /\ llm_configs[cand].api_key_env = "None"
    /\ ~builds[cand]
    /\ attempts' = Append(attempts, LocalClient(llm_configs[cand]))
    /\ log' = Append(log, <<cand, "failed">>)
    /\ cand' = cand + 1
    /\ UNCHANGED <<env, builds, fallback_builds, llm_pc, llm, appvars, runvars, imgvars>>

\* Lines 65-74: the key is set, and LLM(...) returns.
KeyedBuilt ==
    /\ llm_pc = "loop" /\ cand <= Len(llm_configs)
    /\ llm_configs[cand].api_key_env # "None"
    /\ Truthy(Getenv(llm_configs[cand].api_key_env))
    /\ builds[cand]
    /\ LET client == KeyedClient(llm_configs[cand],
                                  Getenv(llm_configs[cand].api_key_env))
       IN  /\ attempts' = Append(attempts, client)
           /\ llm' = client
    /\ log' = Append(log, <<cand, "using">>)
    /\ llm_pc' = "returned"
    /\ UNCHANGED <<env, builds, fallback_builds, cand, appvars, runvars, imgvars>>

\* Lines 65-72 and 77-79: the key is set, and LLM(...) throws.
KeyedFailed ==
    /\ llm_pc = "loop" /\ cand <= Len(llm_configs)
    /\ llm_configs[cand].api_key_env # "None"
    /\ Truthy(Getenv(llm_configs[cand].api_key_env))
    /\ ~builds[cand]
    /\ attempts' = Append(attempts,
                          KeyedClient(llm_configs[cand],
                                      Getenv(llm_configs[cand].api_key_env)))
    /\ log' = Append(log, <<cand, "failed">>)
    /\ cand' = cand + 1
    /\ UNCHANGED <<env, builds, fallback_builds, llm_pc, llm, appvars, runvars, imgvars>>

\* Lines 65-66 and 75-76: the key is not set.
KeyMissing ==
    /\ llm_pc = "loop" /\ cand <= Len(llm_configs)
    /\ llm_configs[cand].api_key_env # "None"
    /\ ~Truthy(Getenv(llm_configs[cand].api_key_env))
    /\ log' = Append(log, <<cand, "no key">>)
    /\ cand' = cand + 1
    /\ UNCHANGED <<env, builds, fallback_builds, llm_pc, llm, attempts, appvars, runvars, imgvars>>

\* Lines 81-87: the loop is over, and the fallback's LLM(...) returns.
FallbackBuilt ==
    /\ llm_pc = "loop" /\ cand > Len(llm_configs)
    /\ fallback_builds
    /\ attempts' = Append(attempts, FallbackClient)
    /\ log' = Append(log, <<0, "fallback">>)
    /\ llm' = FallbackClient
    /\ llm_pc' = "returned"
    /\ UNCHANGED <<env, builds, fallback_builds, cand, appvars, runvars, imgvars>>

\* Lines 81-87: the fallback's LLM(...) throws, outside every try.
FallbackRaised ==
    /\ llm_pc = "loop" /\ cand > Len(llm_configs)
    /\ ~fallback_builds
    /\ attempts' = Append(attempts, FallbackClient)
    /\ log' = Append(log, <<0, "fallback">>)
    /\ llm_pc' = "raised"
    /\ UNCHANGED <<env, builds, fallback_builds, cand, llm, appvars, runvars, imgvars>>

NextSelect ==
    \/ LocalBuilt
    \/ LocalFailed
    \/ KeyedBuilt
    \/ KeyedFailed
    \/ KeyMissing
    \/ FallbackBuilt
    \/ FallbackRaised

(***************************************************************************)
(* The server probes of main.py.                                           *)
(***************************************************************************)
\* Line 216: the least major version of Node.js.
MinNodeMajor == 18

\* Line 355.
max_retries == 2

\* What `node --version` may print, character by character.
NodeVersions ==
    { <<"v", "2", "0", ".", "1", "1", ".", "0", "NL">>,
      <<"v", "1", "8", ".", "0", ".", "0", "NL">>,
      <<"v", "1", "6", ".", "2", "0", ".", "2", "NL">>,
      <<"v", "9", ".", "1", "1", ".", "2", "NL">>,
      <<"v", "1", "0", "0", ".", "0", ".", "0", "NL">>,
      <<"x", "NL">>,
      <<>> }

\* The outcomes of subprocess.run([...], timeout=10): the process ends with a
\* return code, or it is not over after 10 seconds (TimeoutExpired), or the
\* command does not exist (FileNotFoundError).
NpxOutcomes ==
    { [kind |-> "exit", returncode |-> "0", stdout |-> <<"1", "0", "NL">>],
      [kind |-> "exit", returncode |-> "1", stdout |-> <<>>],
      [kind |-> "timeout", returncode |-> "None", stdout |-> <<>>],
      [kind |-> "not found", returncode |-> "None", stdout |-> <<>>] }

NodeOutcomes ==
    { [kind |-> "exit", returncode |-> "0", stdout |-> v] : v \in NodeVersions }
    \cup
    { [kind |-> "exit", returncode |-> "1",
       stdout |-> <<"v", "2", "0", ".", "1", "1", ".", "0", "NL">>],
      [kind |-> "timeout", returncode |-> "None", stdout |-> <<>>],
      [kind |-> "not found", returncode |-> "None", stdout |-> <<>>] }

\* The outcomes of `with CustomMCPServerAdapter([...]) as tools`: the server
\* answers, or it does not within 90 seconds, or the adapter raises otherwise.
LiveOutcomes == {"ok", "timeout", "exception"}

\* The outcomes of crew.kickoff and of result["summary"] (lines 359-364): the
\* summary is there, kickoff raises, or result["summary"] raises.
KickoffOutcomes == {"ok", "raises", "no summary"}

Digits == {"0", "1", "2", "3", "4", "5", "6", "7", "8", "9"}

DigitValue(d) ==
    CASE d = "0" -> 0 [] d = "1" -> 1 [] d = "2" -> 2 [] d = "3" -> 3 [] d = "4" -> 4
      [] d = "5" -> 5 [] d = "6" -> 6 [] d = "7" -> 7 [] d = "8" -> 8 [] d = "9" -> 9

\* int() raised ValueError.
ValueError == -1

\* int(s) for a string of decimal digits; anything else of NodeVersions raises.
RECURSIVE IntOfDigits(_, _)
IntOfDigits(s, acc) ==
    IF s = <<>> THEN acc
    ELSE IntOfDigits(Tail(s), 10 * acc + DigitValue(Head(s)))

IntOf(s) ==
    IF s # <<>> /\ \A i \in 1..Len(s) : s[i] \in Digits
    THEN IntOfDigits(s, 0)
    ELSE ValueError

\* str.lstrip('v')
RECURSIVE LStripV(_)
LStripV(s) == IF s # <<>> /\ Head(s) = "v" THEN LStripV(Tail(s)) ELSE s

\* s.split('.')[0]
RECURSIVE BeforeFirstDot(_)
BeforeFirstDot(s) ==
    IF s = <<>> \/ Head(s) = "." THEN <<>>
    ELSE <<Head(s)>> \o BeforeFirstDot(Tail(s))

\* Lines 212-215: the major version that is read from the output.
MajorVersion(stdout) == IntOf(BeforeFirstDot(LStripV(Strip(stdout))))

\* Mutant of VersionIsCompatible: the threshold is 16.
VersionIsCompatibleFrom16(major_version) ==
    major_version # ValueError /\ major_version >= 16

\* Line 216.
VersionIsCompatible(major_version) ==
    major_version # ValueError /\ major_version >= MinNodeMajor

\* Lines 206-225.
check_node_version(o) ==
    IF o.kind = "exit"
    THEN IF o.returncode = "0"
         THEN VersionIsCompatible(MajorVersion(o.stdout))
         ELSE FALSE
    ELSE FALSE

\* Lines 105-118.
check_npx_availability(o) ==
    IF o.kind = "exit" THEN o.returncode = "0" ELSE FALSE

\* The runner at rest: main.py is looked at from outside only.
OpaqueRunner ==
    /\ stdin = <<>>
    /\ input_calls = 0
    /\ run_pc = "opaque"
    /\ probes = <<>>
    /\ server_configs = <<>>
    /\ live = <<>>
    /\ working_server_params = <<>>
    /\ attempt = 0
    /\ kickoffs = <<>>
    /\ mode = "none"
    /\ run_topic = None
    /\ exit_code = "None"

\* main.py before main() is called (line 419).
InitRunner ==
    /\ stdin = <<>>
    /\ input_calls = 0
    /\ run_pc = "main"
    /\ probes = <<>>
    /\ server_configs = <<>>
    /\ live = <<>>
    /\ working_server_params = <<>>
    /\ attempt = 0
    /\ kickoffs = <<>>
    /\ mode = "none"
    /\ run_topic = None
    /\ exit_code = "None"

\* Mutant of Configured: a server is put in front of the list.
ConfiguredInFront(configs, name, available) ==
    IF available THEN <<name>> \o configs ELSE configs

\* Lines 150-161, 165-176 and 182-201: working_servers.append when the check passed.
Configured(configs, name, available) ==
    IF available THEN Append(configs, name) ELSE configs

\* Lines 149-161: the image server.
CheckPythonServer ==
    /\ pc = "running" /\ run_pc = "main"
    /\ \E exists \in BOOLEAN :
          /\ probes' = Append(probes, <<"image", exists>>)
          /\ server_configs' = Configured(server_configs, "Image Server", exists)
    /\ run_pc' = "check_search"
    /\ UNCHANGED <<stdin, input_calls, live, working_server_params, attempt, kickoffs, mode,
                   run_topic, exit_code, appvars, llmvars, imgvars>>

\* Lines 164-176: the search server.
CheckSearchServer ==
    /\ pc = "running" /\ run_pc = "check_search"
    /\ \E exists \in BOOLEAN :
          /\ probes' = Append(probes, <<"search", exists>>)
          /\ server_configs' = Configured(server_configs, "Python Search Server", exists)
    /\ run_pc' = "check_npx"
    /\ UNCHANGED <<stdin, input_calls, live, working_server_params, attempt, kickoffs, mode,
                   run_topic, exit_code, appvars, llmvars, imgvars>>

\* Lines 179-182 and 200-204: npx --version.
CheckNpx ==
    /\ pc = "running" /\ run_pc = "check_npx"
    /\ \E o \in NpxOutcomes :
          /\ probes' = Append(probes, <<"npx", o>>)
          /\ run_pc' = IF check_npx_availability(o) THEN "check_node" ELSE "configured"
    /\ UNCHANGED <<stdin, input_calls, server_configs, live, working_server_params, attempt,
                   kickoffs, mode, run_topic, exit_code, appvars, llmvars, imgvars>>

\* Lines 183-199 and 203-204: node --version, and the filesystem server.
CheckNode ==
    /\ pc = "running" /\ run_pc = "check_node"
    /\ \E o \in NodeOutcomes :
          /\ probes' = Append(probes, <<"node", o>>)
          /\ server_configs' =
                Configured(server_configs, "Filesystem Server", check_node_version(o))
    /\ run_pc' = "configured"
    /\ UNCHANGED <<stdin, input_calls, live, working_server_params, attempt, kickoffs, mode,
                   run_topic, exit_code, appvars, llmvars, imgvars>>

\* Lines 316-319: no server was configured.
NoServerConfigured ==
    /\ pc = "running" /\ run_pc = "configured"
    /\ server_configs = <<>>
    /\ mode' = "fallback"
    /\ run_pc' = "fallback_input"
    /\ UNCHANGED <<stdin, input_calls, probes, server_configs, live, working_server_params, attempt,
                   kickoffs, run_topic, exit_code, appvars, llmvars, imgvars>>

\* Mutant of AfterLiveFailure: the loop ends at the first server that fails.
AfterLiveFailureBreak(tested) ==
    tested \o [i \in 1..(Len(server_configs) - Len(tested)) |-> <<"skipped", "none">>]

\* Lines 248-250: the live tests made when one has failed (`continue`).
AfterLiveFailure(tested) == tested

\* Mutant of Working: a server is kept whatever its live test gave.
WorkingWhatever(params, name, outcome) == Append(params, name)

\* Lines 244-250: working_servers.append when the adapter was entered.
Working(params, name, outcome) ==
    IF outcome = "ok" THEN Append(params, name) ELSE params

\* Lines 241-250: one turn of the loop of test_servers_individually.
TestServer ==
    /\ pc = "running" /\ run_pc = "configured"
    /\ Len(live) < Len(server_configs)
    /\ LET name == server_configs[Len(live) + 1]
       IN  \E outcome \in LiveOutcomes :
              /\ live' = IF outcome = "ok"
                         THEN Append(live, <<name, outcome>>)
                         ELSE AfterLiveFailure(Append(live, <<name, outcome>>))
              /\ working_server_params' = Working(working_server_params, name, outcome)
    /\ UNCHANGED <<stdin, input_calls, run_pc, probes, server_configs, attempt, kickoffs, mode,
                   run_topic, exit_code, appvars, llmvars, imgvars>>

\* Lines 322-327: every configured server was tested and none works.
NoServerWorking ==
    /\ pc = "running" /\ run_pc = "configured"
    /\ server_configs # <<>>
    /\ Len(live) = Len(server_configs)
    /\ working_server_params = <<>>
    /\ mode' = "fallback"
    /\ run_pc' = "fallback_input"
    /\ UNCHANGED <<stdin, input_calls, probes, server_configs, live, working_server_params, attempt,
                   kickoffs, run_topic, exit_code, appvars, llmvars, imgvars>>

\* Lines 329-346: the adapter of the working servers is entered.
AdapterConnects ==
    /\ pc = "running" /\ run_pc = "configured"
    /\ Len(live) = Len(server_configs)
    /\ working_server_params # <<>>
    /\ mode' = "tools"
    /\ run_pc' = "input"
    /\ UNCHANGED <<stdin, input_calls, probes, server_configs, live, working_server_params, attempt,
                   kickoffs, run_topic, exit_code, appvars, llmvars, imgvars>>

\* Lines 333 and 377-381: the adapter raises, and the fallback is called.
AdapterRaises ==
    /\ pc = "running" /\ run_pc = "configured"
    /\ Len(live) = Len(server_configs)
    /\ working_server_params # <<>>
    /\ mode' = "fallback"
    /\ run_pc' = "fallback_input"
    /\ UNCHANGED <<stdin, input_calls, probes, server_configs, live, working_server_params, attempt,
                   kickoffs, run_topic, exit_code, appvars, llmvars, imgvars>>

\* Lines 349-352 and 401-403: what input(...).strip() gives, or the default.
TopicOrDefault(line) ==
    IF Strip(line) = <<>> THEN <<"artificial intelligence">> ELSE Strip(line)

\* Lines 349-356: the topic is read from the standard input.  With nothing
\* left to read input() raises EOFError, which line 377 catches.
ReadTopic ==
    /\ pc = "running" /\ run_pc = "input"
    /\ IF stdin # <<>>
       THEN /\ run_topic' = TopicOrDefault(Head(stdin))
            /\ stdin' = Tail(stdin)
            /\ run_pc' = "kickoff"
            /\ mode' = mode
       ELSE /\ run_pc' = "fallback_input"
            /\ mode' = "fallback"
            /\ UNCHANGED <<run_topic, stdin>>
    /\ input_calls' = input_calls + 1
    /\ attempt' = 0
    /\ UNCHANGED <<probes, server_configs, live, working_server_params, kickoffs,
                   exit_code, appvars, llmvars, imgvars>>

\* Mutant of MayRetry: one retry more.
MayRetryOnceMore(n) == n < max_retries + 1

\* Line 369.
MayRetry(n) == n < max_retries

\* Lines 357-367: crew.kickoff returns and the summary is printed.
KickoffSucceeds ==
    /\ pc = "running" /\ run_pc = "kickoff"
    /\ kickoffs' = Append(kickoffs, <<"tools", "ok">>)
    /\ run_pc' = "exited"
    /\ exit_code' = "0"
    /\ UNCHANGED <<stdin, input_calls, probes, server_configs, live, working_server_params, attempt,
                   mode, run_topic, appvars, llmvars, imgvars>>

\* Lines 357-372: the attempt fails and another one follows.
KickoffRetried ==
    /\ pc = "running" /\ run_pc = "kickoff"
    /\ MayRetry(attempt)
    /\ \E outcome \in KickoffOutcomes \ {"ok"} :
          kickoffs' = Append(kickoffs, <<"tools", outcome>>)
    /\ attempt' = attempt + 1
    /\ UNCHANGED <<stdin, input_calls, run_pc, probes, server_configs, live, working_server_params,
                   mode, run_topic, exit_code, appvars, llmvars, imgvars>>

\* Lines 357-381: the last attempt fails; the exception is raised again,
\* caught at line 377, and the fallback is called.
KickoffGivesUp ==
    /\ pc = "running" /\ run_pc = "kickoff"
    /\ ~MayRetry(attempt)
    /\ \E outcome \in KickoffOutcomes \ {"ok"} :
          kickoffs' = Append(kickoffs, <<"tools", outcome>>)
    /\ mode' = "fallback"
    /\ run_pc' = "fallback_input"
    /\ UNCHANGED <<stdin, input_calls, probes, server_configs, live, working_server_params, attempt,
                   run_topic, exit_code, appvars, llmvars, imgvars>>

\* Lines 400-405: run_fallback_mode reads the topic from the standard input.
FallbackReadsTopic ==
    /\ pc = "running" /\ run_pc = "fallback_input"
    /\ stdin # <<>>
    /\ run_topic' = TopicOrDefault(Head(stdin))
    /\ stdin' = Tail(stdin)
    /\ input_calls' = input_calls + 1
    /\ run_pc' = "fallback_kickoff"
    /\ UNCHANGED <<probes, server_configs, live, working_server_params, attempt, kickoffs,
                   mode, exit_code, appvars, llmvars, imgvars>>

\* Line 400: nothing is left to read; input() raises EOFError, which nothing
\* catches, and the process ends with code 1.
FallbackInputEOF ==
    /\ pc = "running" /\ run_pc = "fallback_input"
    /\ stdin = <<>>
    /\ input_calls' = input_calls + 1
    /\ run_pc' = "exited"
    /\ exit_code' = "1"
    /\ UNCHANGED <<stdin, probes, server_configs, live, working_server_params, attempt,
                   kickoffs, mode, run_topic, appvars, llmvars, imgvars>>

\* Lines 406-411: the run without tools gives its summary.
FallbackSucceeds ==
    /\ pc = "running" /\ run_pc = "fallback_kickoff"
    /\ kickoffs' = Append(kickoffs, <<"fallback", "ok">>)
    /\ run_pc' = "exited"
    /\ exit_code' = "0"
    /\ UNCHANGED <<stdin, input_calls, probes, server_configs, live, working_server_params, attempt,
                   mode, run_topic, appvars, llmvars, imgvars>>

\* Lines 406-410: the run without tools raises; nothing catches it.
FallbackFails ==
    /\ pc = "running" /\ run_pc = "fallback_kickoff"
    /\ \E outcome \in KickoffOutcomes \ {"ok"} :
          kickoffs' = Append(kickoffs, <<"fallback", outcome>>)
    /\ run_pc' = "exited"
    /\ exit_code' = "1"
    /\ UNCHANGED <<stdin, input_calls, probes, server_configs, live, working_server_params, attempt,
                   mode, run_topic, appvars, llmvars, imgvars>>

\* One request, with what main.py does in it.
NextRunner ==
    \/ StartResearch
    \/ CheckPythonServer
    \/ CheckSearchServer
    \/ CheckNpx
    \/ CheckNode
    \/ NoServerConfigured
    \/ TestServer
    \/ NoServerWorking
    \/ AdapterConnects
    \/ AdapterRaises
    \/ ReadTopic
    \/ KickoffSucceeds
    \/ KickoffRetried
    \/ KickoffGivesUp
    \/ FallbackReadsTopic
    \/ FallbackInputEOF
    \/ FallbackSucceeds
    \/ FallbackFails
    \/ RunnerExits
    \/ RunnerFails

(***************************************************************************)
(* One call of get_latest_images.                                          *)
(***************************************************************************)
\* The entries servers/images may hold, in the order of its listing.
ImagePool ==
    << [name |-> "a", ext |-> "png", hidden |-> FALSE],
       [name |-> "b", ext |-> "jpg", hidden |-> FALSE],
       [name |-> "c", ext |-> "png", hidden |-> FALSE],
       [name |-> "d", ext |-> "PNG", hidden |-> FALSE],
       [name |-> "e", ext |-> "txt", hidden |-> FALSE],
       [name |-> "", ext |-> "png", hidden |-> TRUE] >>

\* The directory that holds the entries of the pool whose time is not 0, each
\* with its modification time.
RECURSIVE Listing(_, _)
Listing(times, i) ==
    IF i > Len(ImagePool) THEN <<>>
    ELSE (IF times[i] = 0 THEN <<>>
          ELSE <<[name |-> ImagePool[i].name, ext |-> ImagePool[i].ext,
                  hidden |-> ImagePool[i].hidden, mtime |-> times[i]]>>)
         \o Listing(times, i + 1)

Directories ==
    { NoDirectory } \cup
    { [exists |-> TRUE, files |-> Listing(times, 1)] :
         times \in [1..Len(ImagePool) -> 0..MaxMtime] }

\* No call of get_latest_images is followed.
IdleImages ==
    /\ images_dir = NoDirectory
    /\ image_files = <<>>
    /\ img_pc = "idle"

InitImages ==
    /\ images_dir \in Directories
    /\ image_files = <<>>
    /\ img_pc = "called"

\* Lines 159-179.
ListLatestImages ==
    /\ img_pc = "called"
    /\ image_files' = GetLatestImages(images_dir)
    /\ img_pc' = "returned"
    /\ UNCHANGED <<images_dir, appvars, llmvars, runvars>>

NextImages == ListLatestImages

(***************************************************************************)
(* Specifications.                                                         *)
(***************************************************************************)
\* The provider selection at rest, while the front end is checked.
IdleLLM ==
    /\ env = [v \in CredentialVars |-> "unset"]
    /\ builds = [i \in 1..Len(llm_configs) |-> TRUE]
    /\ fallback_builds = TRUE
    /\ cand = 1
    /\ llm_pc = "loop"
    /\ llm = NoClient
    /\ attempts = <<>>
    /\ log = <<>>

\* One request of the front end.
Init == InitApp /\ IdleLLM /\ OpaqueRunner /\ IdleImages
Spec == Init /\ [][Next]_vars

\* One run of get_available_llm.
InitSelect == InitLLM /\ InitApp /\ OpaqueRunner /\ IdleImages
SpecLLM == InitSelect /\ [][NextSelect]_vars

\* A session of several requests.
SpecSession == Init /\ [][NextSession]_vars

\* One request and the run of main.py it starts.
InitRun == InitApp /\ IdleLLM /\ InitRunner /\ IdleImages
SpecRunner == InitRun /\ [][NextRunner]_vars

\* One call of get_latest_images.
InitListing == InitApp /\ IdleLLM /\ OpaqueRunner /\ InitImages
SpecImages == InitListing /\ [][NextImages]_vars

\* extract_final_result on framed transcripts.
SpecDecorated == Init /\ [][NextDecorated]_vars

(***************************************************************************)
(* Properties of extract_final_result and of the results panel.            *)
(***************************************************************************)
\* The lines of the transcript, and of the result.
Lines == Split(output)
ResultLines == Split(result)

HasToken(s, t) == \E i \in 1..Len(s) : s[i] = t
HasMarker(s) == HasToken(s, "FR")
HasLabel(s) == HasToken(s, "FA") \/ HasToken(s, "HFA") \/ HasToken(s, "HFAC")
HasAnswerColon(s) == HasToken(s, "FA") \/ HasToken(s, "HFAC")

\* The tokens after position i of s.
From(s, i) == SubSeq(s, i + 1, Len(s))

\* Position of the first token of s that is in toks (0: none).
FirstOf(s, toks) ==
    IF \E i \in 1..Len(s) : s[i] \in toks
    THEN CHOOSE i \in 1..Len(s) : s[i] \in toks /\ \A j \in 1..(i - 1) : s[j] \notin toks
    ELSE 0

\* Index of the first line that satisfies P (0: none).
FirstLine(ls, P(_)) ==
    IF \E i \in 1..Len(ls) : P(ls[i])
    THEN CHOOSE i \in 1..Len(ls) : P(ls[i]) /\ \A j \in 1..(i - 1) : ~P(ls[j])
    ELSE 0

\* The box-drawing glyphs, and the glyphs and emoji the second attempt removes.
Glyphs == {"BOXTL", "BOXV", "BOXBL", "DBLH", "DBLH31", "BOXH", "BOXL"}
GlyphsAndEmoji == Glyphs \cup {"ROCKET", "CLIP", "WRENCH", "CHECK"}
Unglyphed(line, glyphs) == Strip(SelectSeq(line, LAMBDA t : t \notin glyphs))

\* Concatenation of f(ls[i]) for i from lo to hi - 1.
RECURSIVE Concat(_)
Concat(ss) == IF ss = <<>> THEN <<>> ELSE Head(ss) \o Concat(Tail(ss))
Gather(ls, lo, hi, f(_)) ==
    Concat([i \in 1..(hi - lo) |-> f(ls[lo + i - 1])])

\* C1: for every transcript, what extract_final_result returns is a string (not
\* None) of at least one character, produced by one of the three attempts or by
\* the canned sentence.  (Every step of the function is defined on every
\* transcript: an index out of range would be an evaluation error in TLC.)
C1_AlwaysNonEmptyString ==
    pc = "returned" =>
        /\ result # None
        /\ result # <<>>
        /\ StrLen(result) > 0
        /\ strategy \in {"marker", "labeled", "block", "fallback"}

\* C1 witness: a marker-only transcript has been answered with the canned sentence.
C1_Witness ==
    pc = "returned" /\ output = <<"FR">> /\ result = <<"FALLBACK">>

\* What C2 says the result is: the text after the marker on its line, then the
\* cleaned lines that follow it, separators and blank lines left out.
C2_Counts(line) ==
    Unglyphed(line, Glyphs \cup {"E50"}) # <<>>
C2_Kept(line) ==
    IF C2_Counts(line) THEN <<Unglyphed(line, Glyphs)>> ELSE <<>>
C2_Tail(line) ==
    IF Strip(From(line, FirstOf(line, {"FR"}))) # <<>>
    THEN <<Strip(From(line, FirstOf(line, {"FR"})))>> ELSE <<>>
C2_Claimed ==
    LET k == FirstLine(Lines, HasMarker)
    IN  C2_Tail(Lines[k]) \o Gather(Lines, k + 1, Len(Lines) + 1, C2_Kept)

\* C2: when the transcript holds the marker followed by N >= 1 non-empty,
\* non-decorative lines, the result is exactly those lines, cleaned and joined by
\* newlines: no line before the marker line and no separator line is in it.
C2_MarkerBlockExactly ==
    LET k == FirstLine(Lines, HasMarker)
    IN  (/\ pc = "returned"
         /\ k # 0
         /\ \A i \in (k + 1)..Len(Lines) : ~HasMarker(Lines[i])
         /\ \E i \in (k + 1)..Len(Lines) : C2_Counts(Lines[i]))
        => result = Join(C2_Claimed)

\* C3, as amended: what the second attempt captures.  The capture starts at the
\* first label line and stops before the first later line that is not a label
\* line and holds an end pattern.
C3_EndWords ==
    {"status:", "used", "assigned to:", "task completion", "crew completion",
     "crew execution completed"}
C3_HasEnd(line) ==
    \/ \E i \in 1..Len(line) : LowerTok(line[i]) \in C3_EndWords
    \/ \E i \in 1..(Len(line) - 2) :
          line[i] = "BOXL" /\ line[i + 1] = "BOXH" /\ line[i + 2] = "BOXH"
C3_Stop(ls, a, labelsStop) ==
    LET ends == {i \in (a + 1)..Len(ls) :
                    C3_HasEnd(ls[i]) /\ (labelsStop \/ ~HasLabel(ls[i]))}
    IN  IF ends = {} THEN Len(ls) + 1
        ELSE CHOOSE i \in ends : \A j \in ends : i <= j
C3_Kept(line) ==
    IF HasLabel(line)
    THEN IF HasAnswerColon(line)
            /\ Strip(From(line, FirstOf(line, {"FA", "HFAC"}))) # <<>>
         THEN <<Strip(From(line, FirstOf(line, {"FA", "HFAC"})))>>
         ELSE <<>>
    ELSE IF StrLen(Unglyphed(line, GlyphsAndEmoji)) > 10
         THEN <<Unglyphed(line, GlyphsAndEmoji)>>
         ELSE <<>>
C3_Captured(labelsStop) ==
    LET a == FirstLine(Lines, HasLabel)
    IN  Gather(Lines, a, C3_Stop(Lines, a, labelsStop), C3_Kept)

\* The case of C3: no marker, a "Final Answer:" line, and the second attempt
\* produced the result.
C3_Case ==
    /\ pc = "returned"
    /\ strategy = "labeled"
    /\ ~HasMarker(output)
    /\ \E i \in 1..Len(Lines) : HasAnswerColon(Lines[i])

\* C3, as claimed: the capture stops at the first later line with an end pattern,
\* nothing at or after that line is in the result, and every line of the result
\* has more than 10 characters.
C3_AsClaimed ==
    C3_Case =>
        /\ result = Join(C3_Captured(TRUE))
        /\ \A i \in 1..Len(ResultLines) : StrLen(ResultLines[i]) > 10

\* C3, amended: the capture stops at the first later line that is not itself a
\* label line and holds an end pattern (case-insensitively); nothing at or after
\* that line is in the result; every result line taken from a captured line has
\* more than 10 characters after cleaning, and the text after "Final Answer:" on a
\* label line is kept as it is, whatever its length.
C3_StopsAtEndPattern ==
    C3_Case => result = Join(C3_Captured(FALSE))

\* C3 witness: a short text on the label line is kept, a short captured line is
\* dropped, and the capture has stopped at a line with an end pattern.
C3_Witness ==
    /\ pc = "returned"
    /\ strategy = "labeled"
    /\ output = Join(<< <<"FA", "SP", "W5">>, <<"W5">>, <<"Status:", "SP", "W31">> >>)
    /\ result = <<"W5">>

\* C4: the lines a run is made of, and the last run.
C4_Chrome(line) ==
    \/ \E i \in 1..Len(line) :
          line[i] \in {"BOXTL", "BOXV", "BOXBL", "ROCKET", "CLIP",
                       "Assigned to:", "Status:"}
    \/ \E i \in 1..(Len(line) - 2) :
          line[i] = "BOXL" /\ line[i + 1] = "BOXH" /\ line[i + 2] = "BOXH"
C4_InRun(line) == ~C4_Chrome(line) /\ StrLen(Strip(line)) > 30
C4_LastRun ==
    LET last == CHOOSE j \in 1..Len(Lines) :
                    C4_InRun(Lines[j]) /\ \A k \in (j + 1)..Len(Lines) : ~C4_InRun(Lines[k])
        first == CHOOSE i \in 1..last :
                    /\ \A k \in i..last : C4_InRun(Lines[k])
                    /\ i > 1 => ~C4_InRun(Lines[i - 1])
    IN  [k \in 1..(last - first + 1) |-> Strip(Lines[first + k - 1])]

\* C4: with neither the marker nor a label line in the transcript, the result is
\* the last contiguous run of lines longer than 30 characters (stripped), a run
\* never going across a UI line, a blank line or a shorter line, joined by newlines.
C4_LastSubstantialRun ==
    (/\ pc = "returned"
     /\ ~HasMarker(output)
     /\ ~HasLabel(output)
     /\ \E i \in 1..Len(Lines) : C4_InRun(Lines[i]))
    => /\ strategy = "block"
       /\ result = Join(C4_LastRun)

\* C4 witness: a UI line has cut the run, and the last run alone is returned.
C4_Witness ==
    /\ pc = "returned"
    /\ output = Join(<< <<"W31">>, <<"BOXV", "SP", "W31", "SP", "BOXV">>,
                        <<"W31", "SP", "USED">> >>)
    /\ result = <<"W31", "SP", "USED">>

\* C5: for the empty transcript and for every transcript made of box-drawing
\* glyphs and whitespace only, the result is the canned sentence.
C5_DecorativeGivesFallback ==
    (/\ pc = "returned"
     /\ \A i \in 1..Len(output) : output[i] \in Glyphs \cup {"SP", "NL"})
    => result = <<"FALLBACK">>

\* An ANSI sequence: ESC, '[', digits and semicolons, 'm'.
C6_HasAnsi(s) ==
    \E i \in 1..Len(s) : \E j \in (i + 2)..Len(s) :
        /\ s[i] = "ESC" /\ s[i + 1] = "["
        /\ s[j] = "m"
        /\ \A k \in (i + 2)..(j - 1) : s[k] \in {"0", "1", ";"}

\* C6: the text shown and offered for download holds no ANSI escape sequence.
C6_NoAnsiShown ==
    pc = "rendered" => ~C6_HasAnsi(result_text)

\* C7, as claimed: the second attempt runs only when no line holds the marker, the
\* third only when the first two produced nothing, and with the marker in the
\* transcript the result is the first attempt's.
C7_AsClaimed ==
    /\ pc = "labeled" => ~HasMarker(output)
    /\ pc = "block" => MarkerResultLines(output) = <<>> /\ LabeledResultLines(output) = <<>>
    /\ (pc = "returned" /\ HasMarker(output)) =>
          strategy = "marker" /\ result = Join(MarkerResultLines(output))

\* C7, amended: the attempts are tried in order and the first that produces text
\* wins: the second runs only when the first produced no text (no marker, or no
\* text from the marker line on), the third only when the first two produced no
\* text, and when the first attempt produces text the result is that text.
C7_FirstTextWins ==
    /\ pc = "labeled" => MarkerResultLines(output) = <<>>
    /\ pc = "block" => MarkerResultLines(output) = <<>> /\ LabeledResultLines(output) = <<>>
    /\ pc = "returned" =>
          IF MarkerResultLines(output) # <<>>
          THEN strategy = "marker" /\ result = Join(MarkerResultLines(output))
          ELSE IF LabeledResultLines(output) # <<>>
          THEN strategy = "labeled" /\ result = Join(LabeledResultLines(output))
          ELSE strategy \in {"block", "fallback"}
               /\ (strategy = "block" <=> SubstantialBlocks(output) # <<>>)

\* C7 witness: the marker is in the transcript, the first attempt produced no
\* text, and the second attempt produced the result.
C7_Witness ==
    pc = "returned" /\ HasMarker(output) /\ strategy = "labeled"

(***************************************************************************)
(* Properties of get_available_llm.                                        *)
(***************************************************************************)
\* get_available_llm has returned or raised.
SelectionOver == llm_pc \in {"returned", "raised"}

\* Candidate i needs no credential, or its credential is set to a key.
CredentialPresent(i) ==
    \/ llm_configs[i].api_key_env = "None"
    \/ env[llm_configs[i].api_key_env] = "key"

\* Candidate i can be used: its credential is present and its client builds.
Usable(i) == CredentialPresent(i) /\ builds[i]

\* The client the loop returns for candidate i.
ClientOf(i) ==
    [model |-> llm_configs[i].model,
     temperature |-> llm_configs[i].temperature,
     api_key |-> IF llm_configs[i].api_key_env = "None" THEN "None" ELSE "key",
     max_tokens |-> IF llm_configs[i].api_key_env = "None" THEN "1000" ELSE "None"]

\* The client of the fallback: the first entry's model and temperature, with the
\* Groq credential, or the empty string when there is none.
GroqFallback ==
    [model |-> llm_configs[1].model,
     temperature |-> llm_configs[1].temperature,
     api_key |-> IF env["GROQ_API_KEY"] = "key" THEN "key" ELSE "",
     max_tokens |-> "None"]

Logged(entry) == \E n \in 1..Len(log) : log[n] = entry

\* C8: for every combination of credentials and construction outcomes, when some
\* candidate is usable the function returns the first usable one in the order
\* Groq, OpenAI, Anthropic, Ollama; every earlier candidate was skipped (no key)
\* or failed and was logged, and a candidate's exception never leaves the loop
\* (the function raises only from the fallback, after every candidate failed).
\* With only the third credential set and its client building, the third
\* candidate is returned.
C8_FirstUsableProvider ==
    /\ llm_pc = "raised" => (cand > Len(llm_configs) /\ \A i \in 1..Len(llm_configs) : ~Usable(i))
    /\ (SelectionOver /\ \E i \in 1..Len(llm_configs) : Usable(i)) =>
          LET k == CHOOSE i \in 1..Len(llm_configs) :
                       Usable(i) /\ \A j \in 1..(i - 1) : ~Usable(j)
          IN  /\ llm_pc = "returned"
              /\ llm = ClientOf(k)
              /\ \A j \in 1..(k - 1) :
                    IF CredentialPresent(j)
                    THEN Logged(<<j, "failed">>)
                    ELSE Logged(<<j, "no key">>)
              /\ Len(log) = k
    /\ (/\ SelectionOver
        /\ env = [v \in CredentialVars |->
                     IF v = "ANTHROPIC_API_KEY" THEN "key" ELSE "unset"]
        /\ builds[3])
       => llm = ClientOf(3)

\* C8 witness: only the third credential is set, and the third candidate is returned.
C8_Witness ==
    /\ llm_pc = "returned"
    /\ env = [v \in CredentialVars |-> IF v = "ANTHROPIC_API_KEY" THEN "key" ELSE "unset"]
    /\ llm.model = "claude-3-haiku-20240307"

\* None of the credential variables is set.
NoCredentialSet == \A v \in CredentialVars : env[v] = "unset"

\* C9, as claimed: with no credential variable set, the function returns the
\* first (Groq) descriptor and does not raise.
C9_AsClaimed ==
    (SelectionOver /\ NoCredentialSet) =>
        llm_pc = "returned" /\ llm.model = llm_configs[1].model

\* C9, amended: with no credential variable set, no provider that needs a key is
\* constructed; the function returns the fourth, credential-free descriptor
\* (Ollama) when its client builds, returns the Groq fallback with an empty
\* credential only when that construction throws, and raises only when the
\* fallback's construction throws as well.
C9_NoCredentials ==
    (SelectionOver /\ NoCredentialSet) =>
        /\ \A n \in 1..Len(attempts) :
              attempts[n].model \in {llm_configs[4].model, llm_configs[1].model}
        /\ builds[4] => (llm_pc = "returned" /\ llm = ClientOf(4) /\ Len(attempts) = 1)
        /\ (~builds[4] /\ fallback_builds) =>
              (/\ llm_pc = "returned"
               /\ llm = [GroqFallback EXCEPT !.api_key = ""]
               /\ Len(attempts) = 2)
        /\ (~builds[4] /\ ~fallback_builds) => (llm_pc = "raised" /\ llm = NoClient)

\* C9 witness: no credential is set and the Ollama descriptor has been returned.
C9_Witness ==
    llm_pc = "returned" /\ NoCredentialSet /\ llm.model = "ollama/llama3.2"

\* Every candidate of the list failed: its credential is absent or its
\* construction throws.
EveryCandidateFails == \A i \in 1..Len(llm_configs) : ~Usable(i)

C11_OneConstructionPerDescriptor ==
    \A m, n \in 1..Len(attempts) :
        m # n => attempts[m].model # attempts[n].model

(***************************************************************************)
(* Properties of the server probes and of the runs of main.py.             *)
(***************************************************************************)
\* The servers in the order of their declaration.
DeclaredServers == <<"Image Server", "Python Search Server", "Filesystem Server">>

\* get_working_servers has returned.
StaticProbingOver == run_pc \notin {"opaque", "main", "check_search", "check_npx", "check_node"}

\* main() has chosen between the run with tools and the run without.
LiveTestingOver == mode # "none"

\* The static probe p was made, and what it gave.
ProbeMade(p) == \E i \in 1..Len(probes) : probes[i][1] = p
ProbeGave(p, o) == \E i \in 1..Len(probes) : probes[i] = <<p, o>>

\* The major version each output of `node --version` stands for (0: none).
NodeMajorOf(stdout) ==
    CASE stdout = <<"v", "2", "0", ".", "1", "1", ".", "0", "NL">> -> 20
      [] stdout = <<"v", "1", "8", ".", "0", ".", "0", "NL">> -> 18
      [] stdout = <<"v", "1", "6", ".", "2", "0", ".", "2", "NL">> -> 16
      [] stdout = <<"v", "9", ".", "1", "1", ".", "2", "NL">> -> 9
      [] stdout = <<"v", "1", "0", "0", ".", "0", ".", "0", "NL">> -> 100
      [] OTHER -> 0

\* The npx probe ended with code 0; the node probe ended with code 0 and
\* printed a version of major 18 or more.
NpxPassed ==
    \E o \in NpxOutcomes : ProbeGave("npx", o) /\ o.kind = "exit" /\ o.returncode = "0"
NodePassed ==
    \E o \in NodeOutcomes :
        /\ ProbeGave("node", o)
        /\ o.kind = "exit" /\ o.returncode = "0"
        /\ NodeMajorOf(o.stdout) >= 18

\* The checks of a server passed.
ChecksPassed(name) ==
    CASE name = "Image Server" -> ProbeGave("image", TRUE)
      [] name = "Python Search Server" -> ProbeGave("search", TRUE)
      [] name = "Filesystem Server" -> NpxPassed /\ NodePassed

\* s holds name.
Holds(s, name) == \E i \in 1..Len(s) : s[i] = name

\* C12: for every combination of static probe outcomes, what
\* get_working_servers returns is exactly the servers whose checks passed, in
\* the declared order image, search, filesystem: a server whose file is missing
\* is not in it, the order never changes and no server is in it twice.
C12_OrderedSubsetOfPassed ==
    StaticProbingOver =>
        /\ server_configs = SelectSeq(DeclaredServers, ChecksPassed)
        /\ ProbeGave("image", FALSE) => ~Holds(server_configs, "Image Server")
        /\ ProbeGave("search", FALSE) => ~Holds(server_configs, "Python Search Server")
        /\ \A i, j \in 1..Len(server_configs) :
              i # j => server_configs[i] # server_configs[j]

\* C12 witness: the image server's file is missing, the two other servers
\* passed, and they are returned in their order.
C12_Witness ==
    /\ StaticProbingOver
    /\ ProbeGave("image", FALSE)
    /\ server_configs = <<"Python Search Server", "Filesystem Server">>

\* C13: the filesystem server is in the statically probed set if and only if
\* the npx probe exits 0 and the node probe exits 0 with a major version of at
\* least 18; with major version 16, an unparsable version or a failing or timed
\* out node probe it is left out although npx is available, and no probe ends
\* the run: the process has not exited when the probing is over.
C13_FilesystemGate ==
    /\ StaticProbingOver =>
          (Holds(server_configs, "Filesystem Server") <=> (NpxPassed /\ NodePassed))
    /\ (StaticProbingOver /\ NpxPassed /\ ~NodePassed) =>
          (ProbeMade("node") /\ ~Holds(server_configs, "Filesystem Server"))
    /\ ProbeMade("npx") => run_pc # "check_npx"
    /\ ProbeMade("node") => run_pc # "check_node"
    /\ run_pc \in {"check_node", "configured"} => exit_code = "None"

\* C13 witness: npx is available, node prints a version of major 16, and the
\* filesystem server is left out.
C13_Witness ==
    /\ run_pc = "configured"
    /\ NpxPassed
    /\ \E o \in NodeOutcomes :
          ProbeGave("node", o) /\ o.returncode = "0" /\ NodeMajorOf(o.stdout) = 16
    /\ ~Holds(server_configs, "Filesystem Server")

\* The live test of a server was made, and what it gave.
LiveTests(name) == {i \in 1..Len(live) : live[i][1] = name}
LivePassed(name) == \E i \in 1..Len(live) : live[i] = <<name, "ok">>

\* C14: the working set handed to the agent is exactly the statically probed
\* servers that pass their live test, in the same order; a server that fails
\* its live test is dropped although its static probe passed, each server is
\* live-tested once, and a server that is not in the static set is neither
\* live-tested nor in the working set.
C14_LiveFilter ==
    /\ \A name \in {DeclaredServers[k] : k \in 1..Len(DeclaredServers)} :
          /\ Cardinality(LiveTests(name)) <= 1
          /\ ~Holds(server_configs, name) =>
                (LiveTests(name) = {} /\ ~Holds(working_server_params, name))
    /\ LiveTestingOver =>
          /\ \A k \in 1..Len(server_configs) :
                Cardinality(LiveTests(server_configs[k])) = 1
          /\ working_server_params = SelectSeq(server_configs, LivePassed)
    /\ mode = "tools" => working_server_params # <<>>

\* C14 witness: the run with tools has started with the search server alone,
\* the image server having passed its static probe and failed its live test.
C14_Witness ==
    /\ mode = "tools"
    /\ ProbeGave("image", TRUE)
    /\ live[1] = <<"Image Server", "timeout">>
    /\ working_server_params = <<"Python Search Server">>

\* C15: probing is exhaustive and failures stay where they are: whatever a
\* static or live probe of one server gives (failure, timeout, exception), the
\* probes of every later server are made, and no probe failure is raised to
\* the caller: the process ends with code 1 only from the run without tools.
C15_ExhaustiveProbing ==
    /\ StaticProbingOver =>
          (ProbeMade("image") /\ ProbeMade("search") /\ ProbeMade("npx"))
    /\ LiveTestingOver =>
          /\ Len(live) = Len(server_configs)
          /\ \A k \in 1..Len(server_configs) :
                live[k][1] = server_configs[k] /\ live[k][2] \in LiveOutcomes
    /\ mode = "none" => exit_code = "None"
    /\ exit_code = "1" => mode = "fallback"

\* C15 witness: the search server's file is missing and the later probes of
\* npx and node were made; the live test of the first server raised, and the
\* next server was tested all the same.
C15_Witness ==
    /\ LiveTestingOver
    /\ ProbeGave("search", FALSE)
    /\ server_configs = <<"Image Server", "Filesystem Server">>
    /\ live = << <<"Image Server", "exception">>, <<"Filesystem Server", "ok">> >>

\* The crew.kickoff calls of the run with tools.
ToolKickoffs == SelectSeq(kickoffs, LAMBDA k : k[1] = "tools")

\* The loop of the run with tools is over.
ToolRunOver == ToolKickoffs # <<>> /\ run_pc # "kickoff"

\* C18: in the run with tools crew.kickoff is attempted at most 3 times: an
\* attempt that fails before the third is followed by another, no attempt
\* follows one that succeeded, and only the third failure leaves the loop (to
\* the handler of line 377); the front end starts one subprocess per click on
\* the button and never starts it again by itself.
C18_AtMostThreeAttempts ==
    /\ Len(ToolKickoffs) <= 3
    /\ \A i \in 1..(Len(ToolKickoffs) - 1) : ToolKickoffs[i][2] # "ok"
    /\ ToolRunOver =>
          \/ ToolKickoffs[Len(ToolKickoffs)][2] = "ok"
          \/ Len(ToolKickoffs) = 3
    /\ (ToolKickoffs # <<>> /\ mode = "fallback") =>
          (Len(ToolKickoffs) = 3 /\ \A i \in 1..3 : ToolKickoffs[i][2] # "ok")
    /\ (ToolKickoffs # <<>> /\ run_pc = "kickoff") => attempt = Len(ToolKickoffs)
    /\ popens = clicks
    /\ pc # "idle" => popens = 1

\* C18 witness: three attempts failed, the run ended with a failure, and no
\* second subprocess was started.
C18_Witness ==
    /\ pc = "returned"
    /\ Len(ToolKickoffs) = 3
    /\ result = None
    /\ popens = 1

(***************************************************************************)
(* Properties of the requests of a session.                                *)
(***************************************************************************)
\* run_research has returned for the current request.
RequestOver == pc \in {"returned", "stored", "rendered"}

\* The current request failed with a return code other than 0, or with an
\* exception of Popen or communicate.
FailedByExit == RequestOver /\ error # None /\ error[1] = "Error (return code "
FailedByException == RequestOver /\ error # None /\ error[1] = "Unexpected error: "

\* The results panel is drawn: the session holds a result.
PanelShown == "research_result" \in DOMAIN session

\* s ends with t.
EndsWith(s, t) == Len(t) <= Len(s) /\ SubSeq(s, Len(s) - Len(t) + 1, Len(s)) = t

\* C16: when the subprocess ends with a code other than 0, or the
\* communication with it raises, the request gives no result and one error
\* message that holds the captured stderr, and no research result is shown for
\* it: in any sequence of requests, after a failed request the results panel
\* shows no result.
C16_FailureShowsNoResult ==
    /\ (FailedByExit \/ FailedByException) => result = None
    /\ FailedByExit => \E stderr \in StderrTexts : EndsWith(error, stderr)
    /\ (pc = "rendered" /\ (FailedByExit \/ FailedByException)) =>
          /\ shown_error = <<"Research failed: ">> \o error
          /\ ~PanelShown

\* C17: when the subprocess is not over after 300 seconds, run_research kills
\* it and returns no result, whatever was written so far, with the message
\* "Research timed out after 5 minutes"; no message of a run that ended with a
\* code other than 0 or with another exception is that message, and no other
\* run is started.
C17_TimeoutKillsAndReports ==
    /\ (RequestOver /\ killed) =>
          /\ result = None
          /\ strategy = "none"
          /\ error = <<"Research timed out after 5 minutes">>
    /\ (RequestOver /\ ~killed) => error # <<"Research timed out after 5 minutes">>
    /\ (pc = "rendered" /\ killed) =>
          shown_error = <<"Research failed: ", "Research timed out after 5 minutes">>
    /\ popens = clicks

\* C17 witness: the subprocess had written the marker and a text when the
\* timeout struck, and nothing of it is returned.
C17_Witness ==
    /\ pc = "returned"
    /\ killed
    /\ output = <<"FR", "SP", "W11">>
    /\ result = None

\* The current request succeeded and its transcript holds a marker block: one
\* marker line, with text after the marker or after the marker line.
C19_MarkerBlock ==
    LET k == FirstLine(Lines, HasMarker)
    IN  /\ k # 0
        /\ \A i \in (k + 1)..Len(Lines) : ~HasMarker(Lines[i])
        /\ C2_Claimed # <<>>

\* The name of the download for topic t: every space an underscore.
C19_Underscored(t) == [i \in 1..Len(t) |-> IF t[i] = "SP" THEN "_" ELSE t[i]]
C19_Name(t) == <<"research_">> \o C19_Underscored(t) \o <<".txt">>

\* C19: after a successful request for topic T whose transcript holds the
\* marker block, the panel shows the extracted, cleaned block and offers a
\* download named "research_" + T with every space an underscore + ".txt"; in
\* any sequence of requests the topic shown, the text shown and the name of the
\* download belong to the same request, the most recent successful one (a
\* failed request leaves them as they were).
C19_DisplayAndDownload ==
    /\ [](/\ (pc = "rendered" /\ error = None /\ C19_MarkerBlock) =>
                /\ result_text = Join(C2_Claimed)
                /\ panel_topic = Strip(topic)
                /\ file_name = C19_Name(Strip(topic))
          /\ (pc = "rendered" /\ PanelShown) =>
                /\ panel_topic = session["research_topic"]
                /\ file_name = C19_Name(session["research_topic"]))
    /\ [][(pc' = "rendered" /\ error' # None) =>
             (/\ panel_topic' = panel_topic
              /\ file_name' = file_name
              /\ result_text' = result_text)]_vars

(***************************************************************************)
(* Properties of get_latest_images.                                        *)
(***************************************************************************)
\* The entries of the directory that are image files for the function: their
\* name, which does not begin with a dot, ends with one of the five extensions.
C20_Images ==
    {i \in 1..Len(images_dir.files) :
        /\ images_dir.files[i].ext \in {"jpg", "jpeg", "png", "gif", "bmp"}
        /\ ~images_dir.files[i].hidden}

FallbackKickoffs == SelectSeq(kickoffs, LAMBDA k : k[1] = "fallback")

\* The run with tools gave its summary.
ToolRunSucceeded == \E i \in 1..Len(ToolKickoffs) : ToolKickoffs[i][2] = "ok"

\* The run with tools raised: every attempt of the loop failed.
ToolRunRaised ==
    /\ Len(ToolKickoffs) = max_retries + 1
    /\ \A i \in 1..Len(ToolKickoffs) : ToolKickoffs[i][2] # "ok"

\* C21: missing or failing tool servers never end main.py: it runs without
\* tools when the static probe configures no server (the live tests are then
\* skipped), when no server passes its live test, and when the run with tools
\* raises (the adapter fails to connect, or every kickoff attempt failed); it
\* runs with tools only with a non-empty set of servers that passed their live
\* test.  Running without tools means that the crew without tools is kicked
\* off: the process does not end before that.
C21_FallbackNeverFatal ==
    /\ (LiveTestingOver /\ server_configs = <<>>) => (live = <<>> /\ mode = "fallback")
    /\ (LiveTestingOver /\ working_server_params = <<>>) => mode = "fallback"
    /\ (mode = "tools" \/ ToolKickoffs # <<>>) =>
          /\ working_server_params # <<>>
          /\ \A k \in 1..Len(working_server_params) :
                LivePassed(working_server_params[k])
    /\ ToolRunRaised => mode = "fallback"
    /\ (run_pc = "exited" /\ ~ToolRunSucceeded) =>
          (mode = "fallback" /\ FallbackKickoffs # <<>>)

\* C22: in every run of main.py, whichever way it goes (with tools, without
\* tools, with tools and then without after the last retry), input() is called
\* at most once, so that the one line app.py writes is enough: no input() is
\* called with nothing left to read, and a run that has ended has read the
\* topic once.
C22_TopicReadOnce ==
    /\ input_calls <= 1
    /\ run_pc \in {"input", "fallback_input"} => stdin # <<>>
    /\ run_pc = "exited" => (input_calls = 1 /\ run_topic # None)

(***************************************************************************)
(* Properties of the cleaning of the first two attempts.                   *)
(***************************************************************************)
\* C23: no line of a result of the first attempt (marker) or of the second
\* attempt (label) holds a character of the class of line 88, the text taken
\* from the end of the marker line or of the label line included.
C23_NoBoxCharacters ==
    (RequestOver /\ strategy \in {"marker", "labeled"}) =>
        \A i \in 1..Len(result) : result[i] \notin BoxChars

(***************************************************************************)
(* Properties of the session state.                                        *)
(***************************************************************************)
\* The three keys of lines 209-211.
ResultKeys == {"research_result", "research_topic", "latest_images"}

\* The current request ended with return code 0: run_research returned what
\* extract_final_result gave, and no error.
Succeeded == RequestOver /\ error = None

\* C24: research_result, research_topic and latest_images are written only by
\* a successful request and all three together; a request that failed (return
\* code other than 0, timeout, exception) leaves the three as they were; and a
\* run that ended with return code 0 always takes the branch of line 205,
\* since what extract_final_result returns is never empty.
C24_SessionWrittenOnSuccess ==
    /\ [](/\ DOMAIN session \in {{}, ResultKeys}
          /\ Succeeded => IsTruthy(result)
          /\ (Succeeded /\ pc \in {"stored", "rendered"}) =>
                /\ shown_error = None
                /\ session["research_result"] = result
                /\ session["research_topic"] = Strip(topic)
                /\ session["latest_images"] = GetLatestImages(images_dir))
    /\ [][/\ session' # session => (pc = "returned" /\ pc' = "stored" /\ Succeeded)
          /\ (pc = "returned" /\ pc' = "stored" /\ ~Succeeded) =>
                (session' = session /\ shown_error' # None)]_vars

\* C24 witness: the second request of the session failed after the first one
\* succeeded, and the session holds the three values of the first.
C24_Witness ==
    /\ pc = "stored"
    /\ clicks = 2
    /\ error # None
    /\ DOMAIN session = ResultKeys
    /\ session["research_result"] = <<"W11">>
    /\ session["research_topic"] = <<"W5", "SP", "W5">>
    /\ topic = <<"SP", "W11", "SP">>

====
